---- MODULE Spec2Model ----
(***************************************************************************)
(* Model of mikeio1d.Res1D (src/mikeio1d/res1d.py): the facade that picks  *)
(* the time series to read or export, delegates to the result reader, the  *)
(* extractor, the writer and the merger, and clears the queue afterwards.  *)
(* The external collaborators are modelled by the calls they receive: the  *)
(* variable log holds, in order, the calls the last operation made.        *)
(***************************************************************************)
EXTENDS Integers, Sequences, FiniteSets, TLC

VARIABLES
    queue,                      \* result_network.queue: list of TimeSeriesId
    clear_queue_after_reading,  \* Res1D.clear_queue_after_reading
    is_lts,                     \* result_reader.is_lts_result_file()
    data,                       \* contents of the loaded ResultData
    connection_path,            \* data.Connection.FilePath.Path
    op,                         \* the last call: its name and arguments
    log,                        \* the collaborator calls made by the last call
    ret,                        \* what the last call returned (or raised)
    arg_list                    \* the caller's list argument after the call

vars == <<queue, clear_queue_after_reading, is_lts, data, connection_path,
          op, log, ret, arg_list>>

----------------------------------------------------------------------------
(* Bounds of the model *)

NumSeries == 2      \* time series in the result file
MaxLen == 2         \* longest list a caller passes
NumTimeSteps == 2   \* time steps in the result file

----------------------------------------------------------------------------
(* Values.  Every Python value is a record tagged with its kind. *)

None == [kind |-> "None"]

Str(tokens) == [kind |-> "str", s |-> tokens]

\* quantities.TimeSeriesId and query.QueryData objects of the file's series
TimeSeriesId == [kind : {"TimeSeriesId"}, n : 1..NumSeries]
QueryData    == [kind : {"QueryData"}, n : 1..NumSeries]

SeqsUpTo(S, k) == UNION {[1..m -> S] : m \in 0..k}

ColumnModes == {None, Str(<<"all">>), Str(<<"timeseries">>)}

\* A list object is known by its identity: the queue of the result network,
\* or a list built by the caller or by the call itself.
QueueRef == [kind |-> "list", id |-> "queue"]
ListRef(items) == [kind |-> "list", id |-> "new", items |-> items]

Deref(l, q) == IF l.id = "queue" THEN q ELSE l.items

\* File paths are strings, held as sequences of tokens: names, the
\* separator "/" and the extension separator ".".
FilePaths ==
    { Str(<<"out">>),
      Str(<<"out", ".", "csv">>),
      Str(<<"out", ".", "dfs0">>),
      Str(<<".", "txt">>),
      Str(<<"dir", ".", "csv", "/", "out">>),
      Str(<<"out", ".", "csv", ".", "txt">>) }

\* ExtractorOutputFileType members
CSV  == Str(<<"csv">>)
DFS0 == Str(<<"dfs0">>)
TXT  == Str(<<"txt">>)

DataFrame(columns, column_mode) ==
    [kind |-> "DataFrame", columns |-> columns, rows |-> NumTimeSteps,
     column_mode |-> column_mode]

Raised(exc) == [kind |-> "raised", exc |-> exc]

\* All time series of the file, in file order
AllSeries == [i \in 1..NumSeries |-> [kind |-> "TimeSeriesId", n |-> i]]

----------------------------------------------------------------------------
(* The state a call works on, and the calls it makes to its collaborators *)

Start ==
    [queue |-> queue, data |-> data, connection_path |-> connection_path,
     log |-> <<>>, ret |-> None]

Call(s, ev) == [s EXCEPT !.log = Append(@, ev)]

----------------------------------------------------------------------------
(* Collaborators outside res1d.py *)

make_list_if_not_iterable(obj) ==
    IF obj = None THEN None
    ELSE IF obj.kind = "list" THEN obj
    ELSE ListRef(<<obj>>)

to_timeseries_id(query) == [kind |-> "TimeSeriesId", n |-> query.n]

convert_queries_to_time_series_ids(queries) ==
    [i \in 1..Len(queries) |-> to_timeseries_id(queries[i])]

to_data_entry(t) == [kind |-> "DataEntry", of |-> t]

to_dotnet_datetime(time) == [kind |-> "DateTime", t |-> time.t]

result_reader_read(s, timeseries_ids, column_mode, fails) ==
    [Call(s, [call |-> "result_reader.read",
              timeseries_ids |-> Deref(timeseries_ids, s.queue),
              column_mode |-> column_mode])
     EXCEPT !.ret = IF fails THEN Raised("Exception")
                    ELSE DataFrame(Deref(timeseries_ids, s.queue), column_mode)]

result_reader_read_all(s, column_mode) ==
    [Call(s, [call |-> "result_reader.read_all", column_mode |-> column_mode])
     EXCEPT !.ret = DataFrame(AllSeries, column_mode)]

result_writer_modify(s, data_frame) ==
    [Call(s, [call |-> "result_writer.modify", data_frame |-> data_frame])
     EXCEPT !.data.time_data = data_frame]

----------------------------------------------------------------------------
(* os.path.splitext *)

RECURSIVE rfind(_, _, _)
rfind(p, c, i) ==
    IF i = 0 THEN 0
    ELSE IF p[i] = c THEN i
    ELSE rfind(p, c, i - 1)

RECURSIVE has_name_before_dot(_, _, _)
has_name_before_dot(p, filenameIndex, dotIndex) ==
    IF filenameIndex >= dotIndex THEN FALSE
    ELSE IF p[filenameIndex] # "." THEN TRUE
    ELSE has_name_before_dot(p, filenameIndex + 1, dotIndex)

splitext(file_path) ==
    LET p == file_path.s
        sepIndex == rfind(p, "/", Len(p))
        dotIndex == rfind(p, ".", Len(p))
    IN  IF dotIndex > sepIndex /\ has_name_before_dot(p, sepIndex + 1, dotIndex)
        THEN <<Str(SubSeq(p, 1, dotIndex - 1)), Str(SubSeq(p, dotIndex, Len(p)))>>
        ELSE <<file_path, Str(<<>>)>>

----------------------------------------------------------------------------
(* Res1D methods, as transformers of the state a call works on *)

\* Mutant: a non-empty queue wins over the queries the caller supplies
_get_timeseries_ids_queue_first(s, queries) ==
    LET qs == make_list_if_not_iterable(queries)
    IN  IF qs = None \/ Len(Deref(qs, s.queue)) = 0 \/ Len(s.queue) > 0
        THEN QueueRef
        ELSE IF Deref(qs, s.queue)[1].kind = "TimeSeriesId" THEN qs
        ELSE ListRef(convert_queries_to_time_series_ids(Deref(qs, s.queue)))

_get_timeseries_ids_to_read(s, queries) ==
    LET qs == make_list_if_not_iterable(queries)
    IN  IF qs = None \/ Len(Deref(qs, s.queue)) = 0 THEN QueueRef
        ELSE IF Deref(qs, s.queue)[1].kind = "TimeSeriesId" THEN qs
        ELSE ListRef(convert_queries_to_time_series_ids(Deref(qs, s.queue)))

\* Mutant: the list's clear method is named but not called
clear_queue_not_called(s) == s

clear_queue(s) ==
    [Call(s, [call |-> "queue.clear"]) EXCEPT !.queue = <<>>]

read_all(s, column_mode) == result_reader_read_all(s, column_mode)

\* Mutant: an empty selection is handed to the reader's selective read
read_without_empty_check(s, queries, column_mode, fails) ==
    LET timeseries_ids == _get_timeseries_ids_to_read(s, queries)
        s1 == result_reader_read(s, timeseries_ids, column_mode, fails)
    IN  IF s1.ret.kind = "raised" THEN s1
        ELSE IF clear_queue_after_reading THEN clear_queue(s1)
        ELSE s1

\* Mutant: the queue is cleared before the reader is called
read_clears_first(s, queries, column_mode, fails) ==
    LET timeseries_ids == _get_timeseries_ids_to_read(s, queries)
    IN  IF Len(Deref(timeseries_ids, s.queue)) = 0
        THEN read_all(s, column_mode)
        ELSE LET s1 == IF clear_queue_after_reading THEN clear_queue(s) ELSE s
             IN  result_reader_read(s1, timeseries_ids, column_mode, fails)

read(s, queries, column_mode, fails) ==
    LET timeseries_ids == _get_timeseries_ids_to_read(s, queries)
    IN  IF Len(Deref(timeseries_ids, s.queue)) = 0
        THEN read_all(s, column_mode)
        ELSE LET s1 == result_reader_read(s, timeseries_ids, column_mode, fails)
             IN  IF s1.ret.kind = "raised" THEN s1
                 ELSE IF clear_queue_after_reading THEN clear_queue(s1)
                 ELSE s1

extractor_export(s, fails) ==
    [Call(s, [call |-> "extractor.export"])
     EXCEPT !.ret = IF fails THEN Raised("Exception") ELSE None]

\* Mutant: the extension of file_path is used even when ext is given
extract_ext_from_path(s, file_path, queries, time_step_skipping_number, ext, fails) ==
    LET ext1 == splitext(file_path)[2]
        timeseries_ids == Deref(_get_timeseries_ids_to_read(s, queries), s.queue)
        data_entries ==
            [i \in 1..Len(timeseries_ids) |-> to_data_entry(timeseries_ids[i])]
        s1 == Call(s, [call |-> "ExtractorCreator.create",
                       out_file_type |-> ext1,
                       out_file_name |-> file_path,
                       output_data |-> data_entries,
                       result_data |-> s.data,
                       time_step_skipping_number |-> time_step_skipping_number])
        s2 == extractor_export(s1, fails)
    IN  IF s2.ret.kind = "raised" THEN s2
        ELSE IF clear_queue_after_reading THEN clear_queue(s2)
        ELSE s2

extract(s, file_path, queries, time_step_skipping_number, ext, fails) ==
    LET ext1 == IF ext = None THEN splitext(file_path)[2] ELSE ext
        timeseries_ids == Deref(_get_timeseries_ids_to_read(s, queries), s.queue)
        data_entries ==
            [i \in 1..Len(timeseries_ids) |-> to_data_entry(timeseries_ids[i])]
        s1 == Call(s, [call |-> "ExtractorCreator.create",
                       out_file_type |-> ext1,
                       out_file_name |-> file_path,
                       output_data |-> data_entries,
                       result_data |-> s.data,
                       time_step_skipping_number |-> time_step_skipping_number])
        s2 == extractor_export(s1, fails)
    IN  IF s2.ret.kind = "raised" THEN s2
        ELSE IF clear_queue_after_reading THEN clear_queue(s2)
        ELSE s2

to_csv(s, file_path, queries, time_step_skipping_number, fails) ==
    extract(s, file_path, queries, time_step_skipping_number, CSV, fails)

to_dfs0(s, file_path, queries, time_step_skipping_number, fails) ==
    extract(s, file_path, queries, time_step_skipping_number, DFS0, fails)

to_txt(s, file_path, queries, time_step_skipping_number, fails) ==
    extract(s, file_path, queries, time_step_skipping_number, TXT, fails)

\* Mutant: the engine is queried whatever the kind of file
get_reach_value_no_lts_check(s, reach_name, chainage, quantity, time) ==
    LET s1 == IF time.kind = "DateTime" THEN s
              ELSE Call(s, [call |-> "to_dotnet_datetime", time |-> time])
        time_dotnet ==
            IF time.kind = "DateTime" THEN time ELSE to_dotnet_datetime(time)
    IN  [Call(s1, [call |-> "query.GetReachValue",
                   reach_name |-> reach_name, chainage |-> chainage,
                   quantity |-> quantity, time |-> time_dotnet])
         EXCEPT !.ret = [kind |-> "float"]]

get_reach_value(s, reach_name, chainage, quantity, time) ==
    IF is_lts
    THEN [s EXCEPT !.ret = Raised("NotImplementedError")]
    ELSE LET s1 == IF time.kind = "DateTime" THEN s
                   ELSE Call(s, [call |-> "to_dotnet_datetime", time |-> time])
             time_dotnet ==
                 IF time.kind = "DateTime" THEN time ELSE to_dotnet_datetime(time)
         IN  [Call(s1, [call |-> "query.GetReachValue",
                        reach_name |-> reach_name, chainage |-> chainage,
                        quantity |-> quantity, time |-> time_dotnet])
              EXCEPT !.ret = [kind |-> "float"]]

save(s, file_path) ==
    LET s1 == [Call(s, [call |-> "Connection.FilePath.Path", value |-> file_path])
               EXCEPT !.connection_path = file_path]
    IN  Call(s1, [call |-> "data.Save", path |-> s1.connection_path,
                  data |-> s1.data])

\* Mutant: the file is saved before the data frame is applied
modify_saves_first(s, data_frame, file_path) ==
    LET s1 == IF file_path # None THEN save(s, file_path) ELSE s
    IN  result_writer_modify(s1, data_frame)

modify(s, data_frame, file_path) ==
    LET s1 == result_writer_modify(s, data_frame)
    IN  IF file_path # None THEN save(s1, file_path) ELSE s1

\* Mutant: the loop writes the file name back into the caller's list
RECURSIVE convert_loop_in_place(_, _)
convert_loop_in_place(l, i) ==
    IF i > Len(l.file_names) THEN l
    ELSE LET entry == l.file_names[i]
             file_name == IF entry.kind = "Res1D" THEN entry.file_path ELSE entry
         IN  convert_loop_in_place(
                 [l EXCEPT !.file_names[i] = file_name,
                           !.file_names_new = Append(@, file_name)], i + 1)

\* The loop of _convert_res1d_to_str_for_file_names, from index i on;
\* l holds the caller's list and the list under construction.
RECURSIVE convert_loop(_, _)
convert_loop(l, i) ==
    IF i > Len(l.file_names) THEN l
    ELSE LET entry == l.file_names[i]
             file_name == IF entry.kind = "Res1D" THEN entry.file_path ELSE entry
         IN  convert_loop([l EXCEPT !.file_names_new = Append(@, file_name)], i + 1)

_convert_res1d_to_str_for_file_names(file_names) ==
    convert_loop([file_names |-> file_names, file_names_new |-> <<>>], 1)

merge(s, file_names, merged_file_name) ==
    LET l == _convert_res1d_to_str_for_file_names(file_names)
        s1 == Call(s, [call |-> "ResultMerger", file_names |-> l.file_names_new])
    IN  [s |-> Call(s1, [call |-> "result_merger.merge",
                         merged_file_name |-> merged_file_name]),
         file_names |-> l.file_names]

----------------------------------------------------------------------------
(* Inputs *)

QueryLists ==
    {l \in SeqsUpTo(TimeSeriesId \cup QueryData, MaxLen) :
        \/ l = <<>>
        \/ l[1].kind = "TimeSeriesId"
        \/ \A i \in 1..Len(l) : l[i].kind = "QueryData"}

\* What a caller passes as queries: nothing, one object, a list of its own,
\* or the queue of the result network itself.
QueryArgs ==
    {None, QueueRef} \cup TimeSeriesId \cup QueryData
        \cup {ListRef(l) : l \in QueryLists}

SkippingNumbers == {1, 2}

Exts == {None, CSV, DFS0, TXT}

DataFrames ==
    {DataFrame(<<AllSeries[1]>>, Str(<<"all">>)), DataFrame(AllSeries, None)}

SavePaths == {Str(<<"new", ".", "res1d">>), Str(<<"copy", ".", "res1d">>)}

Times == [kind : {"DateTime", "datetime"}, t : {1, 2}]

ReachNames == {Str(<<"reach1">>), Str(<<"reach2">>)}
Chainages == {0, 50}
Quantities == {Str(<<"Discharge">>)}

Res1DObjects == [kind : {"Res1D"}, file_path : SavePaths]

FileNameLists == SeqsUpTo(SavePaths \cup Res1DObjects, MaxLen)

MergedFileNames == {Str(<<"merged", ".", "res1d">>)}

\* The caller's list after the call (empty when no list was passed)
ListAfter(arg, s) == IF arg.kind = "list" THEN Deref(arg, s.queue) ELSE <<>>

----------------------------------------------------------------------------
(* Specification *)

\* No call is in progress and the last result has been taken
Idle == [name |-> "idle"]

\* The state after construction
Init ==
    /\ queue = <<>>
    /\ clear_queue_after_reading \in BOOLEAN
    /\ is_lts \in BOOLEAN
    /\ data = [kind |-> "ResultData", time_data |-> None]
    /\ connection_path = Str(<<"in", ".", "res1d">>)
    /\ op = Idle
    /\ log = <<>>
    /\ ret = None
    /\ arg_list = <<>>

\* A call runs to its end: s is the state it leaves, o the call and its
\* arguments, list_after the caller's list argument as the call leaves it.
Finish(s, o, list_after) ==
    /\ queue' = s.queue
    /\ data' = s.data
    /\ connection_path' = s.connection_path
    /\ log' = s.log
    /\ ret' = s.ret
    /\ op' = o
    /\ arg_list' = list_after
    /\ UNCHANGED <<clear_queue_after_reading, is_lts>>

\* The caller takes the result and goes on to its next call
Return ==
    /\ op # Idle
    /\ op' = Idle
    /\ log' = <<>>
    /\ ret' = None
    /\ arg_list' = <<>>
    /\ UNCHANGED <<queue, clear_queue_after_reading, is_lts, data,
                   connection_path>>

\* result_network: a quantity's add() puts its time series id on the queue
Add ==
    /\ op = Idle
    /\ \E t \in TimeSeriesId :
           /\ \A i \in 1..Len(queue) : queue[i] # t
           /\ Finish([Start EXCEPT !.queue = Append(@, t)],
                     [name |-> "add", timeseries_id |-> t], <<>>)

Read ==
    /\ op = Idle
    /\ \E queries \in QueryArgs, column_mode \in ColumnModes, fails \in BOOLEAN :
           LET s == read(Start, queries, column_mode, fails)
           IN  Finish(s, [name |-> "read", queries |-> queries,
                          column_mode |-> column_mode, queue_at_call |-> queue],
                      ListAfter(queries, s))

ReadAll ==
    /\ op = Idle
    /\ \E column_mode \in ColumnModes :
           Finish(read_all(Start, column_mode),
                  [name |-> "read_all", column_mode |-> column_mode], <<>>)

ClearQueue ==
    /\ op = Idle
    /\ Finish(clear_queue(Start), [name |-> "clear_queue"], <<>>)

ExtractOp(name, file_path, queries, n, ext) ==
    [name |-> name, file_path |-> file_path, queries |-> queries,
     time_step_skipping_number |-> n, ext |-> ext, queue_at_call |-> queue]

Extract ==
    /\ op = Idle
    /\ \E file_path \in FilePaths, queries \in QueryArgs, n \in SkippingNumbers,
          ext \in Exts, fails \in BOOLEAN :
           LET s == extract(Start, file_path, queries, n, ext, fails)
           IN  Finish(s, ExtractOp("extract", file_path, queries, n, ext),
                      ListAfter(queries, s))

ToCsv ==
    /\ op = Idle
    /\ \E file_path \in FilePaths, queries \in QueryArgs, n \in SkippingNumbers,
          fails \in BOOLEAN :
           LET s == to_csv(Start, file_path, queries, n, fails)
           IN  Finish(s, ExtractOp("to_csv", file_path, queries, n, None),
                      ListAfter(queries, s))

ToDfs0 ==
    /\ op = Idle
    /\ \E file_path \in FilePaths, queries \in QueryArgs, n \in SkippingNumbers,
          fails \in BOOLEAN :
           LET s == to_dfs0(Start, file_path, queries, n, fails)
           IN  Finish(s, ExtractOp("to_dfs0", file_path, queries, n, None),
                      ListAfter(queries, s))

ToTxt ==
    /\ op = Idle
    /\ \E file_path \in FilePaths, queries \in QueryArgs, n \in SkippingNumbers,
          fails \in BOOLEAN :
           LET s == to_txt(Start, file_path, queries, n, fails)
           IN  Finish(s, ExtractOp("to_txt", file_path, queries, n, None),
                      ListAfter(queries, s))

GetReachValue ==
    /\ op = Idle
    /\ \E reach_name \in ReachNames, chainage \in Chainages,
          quantity \in Quantities, time \in Times :
           Finish(get_reach_value(Start, reach_name, chainage, quantity, time),
                  [name |-> "get_reach_value", reach_name |-> reach_name,
                   chainage |-> chainage, quantity |-> quantity, time |-> time],
                  <<>>)

Modify ==
    /\ op = Idle
    /\ \E data_frame \in DataFrames, file_path \in SavePaths \cup {None} :
           Finish(modify(Start, data_frame, file_path),
                  [name |-> "modify", data_frame |-> data_frame,
                   file_path |-> file_path], <<>>)

Save ==
    /\ op = Idle
    /\ \E file_path \in SavePaths :
           Finish(save(Start, file_path),
                  [name |-> "save", file_path |-> file_path], <<>>)

Merge ==
    /\ op = Idle
    /\ \E file_names \in FileNameLists, merged_file_name \in MergedFileNames :
           LET m == merge(Start, file_names, merged_file_name)
           IN  Finish(m.s, [name |-> "merge", file_names |-> file_names,
                            merged_file_name |-> merged_file_name],
                      m.file_names)

\* Reading and exporting a selection: the operations that use the queue
Next ==
    \/ Add
    \/ Read
    \/ ReadAll
    \/ ClearQueue
    \/ Extract
    \/ ToCsv
    \/ ToDfs0
    \/ ToTxt
    \/ Return

Spec == Init /\ [][Next]_vars

\* The pass-through operations, which neither read nor change the queue
NextPassThrough ==
    \/ GetReachValue
    \/ Modify
    \/ Save
    \/ Merge
    \/ Return

SpecPassThrough == Init /\ [][NextPassThrough]_vars

----------------------------------------------------------------------------
(* Properties.  They speak of the state a call leaves: op holds the call   *)
(* and its arguments, log the collaborator calls it made, ret its result.  *)

IsExtractCall == op.name \in {"extract", "to_csv", "to_dfs0", "to_txt"}

IsSelectionCall == op.name = "read" \/ IsExtractCall

\* The supplied queries as a list, as they were at the call
SuppliedList ==
    IF op.queries = None THEN <<>>
    ELSE IF op.queries.kind = "list" THEN Deref(op.queries, op.queue_at_call)
    ELSE <<op.queries>>

\* The selection the call has to use
ExpectedSelection ==
    IF SuppliedList = <<>> THEN op.queue_at_call
    ELSE IF SuppliedList[1].kind = "TimeSeriesId" THEN SuppliedList
    ELSE [i \in 1..Len(SuppliedList) |->
             [kind |-> "TimeSeriesId", n |-> SuppliedList[i].n]]

EntriesOf(ids) == [i \in 1..Len(ids) |-> [kind |-> "DataEntry", of |-> ids[i]]]

\* The selection of the call is the queue object itself
TakesQueue == SuppliedList = <<>> \/ op.queries = QueueRef

ClearOnlyAfter(k) ==
    \A i \in 1..Len(log) : log[i].call = "queue.clear" => i > k

\* C1: read() with no queries (None or an empty list) and an empty queue
\* returns what read_all() returns for the same column_mode, and the
\* reader's selective read is not called.
C1_EmptyReadIsReadAll ==
    (op.name = "read" /\ SuppliedList = <<>> /\ op.queue_at_call = <<>>) =>
        /\ ret = DataFrame(AllSeries, op.column_mode)
        /\ log = <<[call |-> "result_reader.read_all",
                    column_mode |-> op.column_mode]>>
        /\ \A i \in 1..Len(log) : log[i].call # "result_reader.read"

C1_Witness ==
    /\ op.name = "read"
    /\ op.queries = ListRef(<<>>)
    /\ op.queue_at_call = <<>>
    /\ op.column_mode = Str(<<"all">>)
    /\ ret = DataFrame(AllSeries, Str(<<"all">>))

\* C2: with clear_queue_after_reading set, the queue is empty after every
\* read() and every extract() that returns normally, whatever the queue
\* held and whatever queries were passed.
C2_QueueEmptyAfterCall ==
    (clear_queue_after_reading /\ IsSelectionCall /\ ret.kind # "raised") =>
        queue = <<>>

C2_Witness ==
    /\ clear_queue_after_reading
    /\ op.name = "extract"
    /\ Len(op.queue_at_call) = 2
    /\ op.queries.kind = "QueryData"
    /\ ret.kind # "raised"
    /\ queue = <<>>

\* C3: extract() takes the output file type from the extension of
\* file_path exactly when ext is None, and uses ext otherwise; to_csv,
\* to_dfs0 and to_txt create a CSV, DFS0 and TXT extractor whatever the
\* extension of file_path and pass file_path, queries and
\* time_step_skipping_number on unchanged.
ExpectedCreate(type) ==
    [call |-> "ExtractorCreator.create",
     out_file_type |-> type,
     out_file_name |-> op.file_path,
     output_data |-> EntriesOf(ExpectedSelection),
     result_data |-> data,
     time_step_skipping_number |-> op.time_step_skipping_number]

C3_OutputFileType ==
    /\ (op.name = "extract" /\ op.ext = None) =>
           log[1] = ExpectedCreate(splitext(op.file_path)[2])
    /\ (op.name = "extract" /\ op.ext # None) =>
           log[1] = ExpectedCreate(op.ext)
    /\ op.name = "to_csv" => log[1] = ExpectedCreate(CSV)
    /\ op.name = "to_dfs0" => log[1] = ExpectedCreate(DFS0)
    /\ op.name = "to_txt" => log[1] = ExpectedCreate(TXT)

C3_Witness ==
    /\ op.name = "extract"
    /\ op.ext = TXT
    /\ op.file_path = Str(<<"out", ".", "csv">>)
    /\ log[1].out_file_type = TXT
    /\ splitext(op.file_path)[2] = Str(<<".", "csv">>)

\* C4: merge() hands the merger a list of the same length and order as
\* file_names, every Res1D entry replaced by its file_path and every other
\* entry unchanged; the caller's list is not changed, and the merger's
\* merge is called exactly once, with merged_file_name.
ExpectedFileNames(file_names) ==
    [i \in 1..Len(file_names) |->
        IF file_names[i].kind = "Res1D" THEN file_names[i].file_path
        ELSE file_names[i]]

C4_MergeFileNames ==
    op.name = "merge" =>
        /\ log = <<[call |-> "ResultMerger",
                    file_names |-> ExpectedFileNames(op.file_names)],
                   [call |-> "result_merger.merge",
                    merged_file_name |-> op.merged_file_name]>>
        /\ arg_list = op.file_names

C4_Witness ==
    /\ op.name = "merge"
    /\ Len(op.file_names) = 2
    /\ op.file_names[1].kind = "Res1D"
    /\ op.file_names[2].kind = "str"
    /\ op.file_names[1].file_path # op.file_names[2]
    /\ Len(log) = 2
    /\ log[1].file_names[1] = op.file_names[1].file_path

\* C5: on an LTS file get_reach_value() raises NotImplementedError and does
\* not call the engine query; on any other file it calls the query exactly
\* once, and converts the time to a .NET DateTime only when it is not one.
C5_GetReachValue ==
    op.name = "get_reach_value" =>
        IF is_lts
        THEN ret = Raised("NotImplementedError") /\ log = <<>>
        ELSE LET query_call(time) ==
                     [call |-> "query.GetReachValue",
                      reach_name |-> op.reach_name, chainage |-> op.chainage,
                      quantity |-> op.quantity, time |-> time]
             IN  /\ ret.kind # "raised"
                 /\ IF op.time.kind = "DateTime"
                    THEN log = <<query_call(op.time)>>
                    ELSE log = <<[call |-> "to_dotnet_datetime",
                                  time |-> op.time],
                                 query_call([kind |-> "DateTime",
                                             t |-> op.time.t])>>

C5_Witness ==
    /\ op.name = "get_reach_value"
    /\ is_lts
    /\ op.time.kind = "datetime"
    /\ ret = Raised("NotImplementedError")

\* C6: modify() always applies the data frame through the result writer;
\* it saves exactly when file_path is not None, after the modification.
\* save() sets the connection's file path before it calls Save.
SaveCalls(file_path, saved) ==
    <<[call |-> "Connection.FilePath.Path", value |-> file_path],
      [call |-> "data.Save", path |-> file_path, data |-> saved]>>

C6_ModifyThenSave ==
    /\ op.name = "modify" =>
           /\ data = [kind |-> "ResultData", time_data |-> op.data_frame]
           /\ log = <<[call |-> "result_writer.modify",
                       data_frame |-> op.data_frame]>>
                    \o (IF op.file_path = None THEN <<>>
                        ELSE SaveCalls(op.file_path, data))
    /\ op.name = "save" =>
           /\ log = SaveCalls(op.file_path, data)
           /\ connection_path = op.file_path

C6_Witness ==
    /\ op.name = "modify"
    /\ op.file_path = Str(<<"new", ".", "res1d">>)
    /\ connection_path = op.file_path
    /\ Len(log) = 3
    /\ log[3].call = "data.Save"
    /\ log[3].data.time_data = op.data_frame

C8_QueueSeenBeforeCleared ==
    (IsSelectionCall /\ TakesQueue /\ op.queue_at_call # <<>>) =>
        /\ IF op.name = "read"
           THEN /\ log[1].call = "result_reader.read"
                /\ log[1].timeseries_ids = op.queue_at_call
                /\ ClearOnlyAfter(1)
           ELSE /\ log[1].call = "ExtractorCreator.create"
                /\ log[1].output_data = EntriesOf(op.queue_at_call)
                /\ log[2].call = "extractor.export"
                /\ ClearOnlyAfter(2)
        /\ ret.kind = "raised" => queue = op.queue_at_call

C8_Witness ==
    /\ op.name = "read"
    /\ clear_queue_after_reading
    /\ op.queries = None
    /\ Len(op.queue_at_call) = 2
    /\ ret.kind = "DataFrame"
    /\ ret.columns = op.queue_at_call
    /\ queue = <<>>
    /\ log[Len(log)].call = "queue.clear"

====
